---- MODULE Spec2Model ----
(***************************************************************************)
(* Model of the vistela backend data layer:                                *)
(*   backend/app/db/db_service.py      insert_video, get_video, list_videos *)
(*   backend/app/services/s3_service.py upload_to_s3                        *)
(* The videos table and the bucket are the external PostgreSQL server and  *)
(* S3 service; they are modelled by what the calls of the code do to them  *)
(* (one transaction per connection, READ COMMITTED, primary key on         *)
(* video_id; whole-object put).                                            *)
(***************************************************************************)
EXTENDS Integers, Sequences, FiniteSets, TLC

\* ------------------------------------------------------------------ bounds
\* largest value the wall clock (datetime.utcnow) reaches
MaxClock == 1
\* number of environment failures (lost connection, storage error, ...) injected in a behaviour
MaxFaults == 1
\* longest folder argument enumerated for upload_to_s3 (characters)
MaxLen == 2
\* number of distinct object keys the bucket holds
MaxBlobs == 1

\* default of list_videos' limit parameter
DefaultLimit == 100
\* default of insert_video's status parameter
DefaultStatus == "pending"

\* ------------------------------------------------------------------ values
\* Python's None where a string is expected
None == "<None>"
\* Python truthiness of an Optional[str]: None and "" are falsy
Truthy(s) == s # None /\ s # ""

\* callers of the record store (request handlers running concurrently)
Procs == {"p1", "p2"}
\* the caller of the behaviours with one call at a time
Caller == "p1"

VideoIds == {"v1", "v2"}
UserIds == {"u1", "u2"}
Filenames == {"a.mp4"}
S3Keys == {"uploads/a.mp4"}
\* the <<user_id, status>> pairs inserted: u1 pending (by default), u1 completed,
\* u2 completed
OwnerArgs == {<<"u1", None>>, <<"u1", "completed">>, <<"u2", "completed">>}
\* filter arguments of list_videos: omitted, empty, or a value
UserFilters == {None, "", "u1"}
StatusFilters == {None, "completed"}
\* limit arguments: zero, fewer than the rows stored, or omitted (the default applies)
LimitArgs == {0, 1, DefaultLimit}

\* ---- strings of s3_service.py are sequences of characters
\* Optional[str] None for a character string
NoFolder == <<None>>
\* Python truthiness of an Optional[str] given as a character sequence
TruthyStr(s) == s # NoFolder /\ s # <<>>
\* all character strings over chars of length at most n
Strings(chars, n) == UNION {[1..m -> chars] : m \in 0..n}
\* "/uploads/" and "a.mp4"
SlashUploadsSlash == <<"/", "u", "p", "l", "o", "a", "d", "s", "/">>
AMp4 == <<"a", ".", "m", "p", "4">>
FolderArgs == {NoFolder, SlashUploadsSlash} \cup Strings({"/", "u"}, MaxLen)
FilenameArgs == {<<"a">>, <<"/", "a">>, AMp4}
\* the bytes of the uploaded file
FileData == <<1, 2>>

\* a setting read with os.getenv is None (unset), "" (empty) or a value ("x")
DbSettings == {"DB_HOST", "DB_USER", "DB_PASS", "DB_NAME"}
S3Settings == {"AWS_ACCESS_KEY_ID", "AWS_SECRET_ACCESS_KEY", "S3_BUCKET_NAME"}
AllSet == [k \in DbSettings \cup S3Settings |-> "x"]
\* the environments enumerated: everything set, or one setting unset or empty
Environments ==
    {AllSet} \cup
    {[AllSet EXCEPT ![k] = v] : k \in DbSettings \cup S3Settings, v \in {None, ""}}

\* exception classes
PsycopgErrors == {"IntegrityError", "OperationalError", "DatabaseError"}
\* except psycopg2.IntegrityError
IsIntegrityError(e) == e = "IntegrityError"
\* except psycopg2.Error
IsPsycopgError(e) == e \in PsycopgErrors

VARIABLES
    component,  \* which module the behaviour exercises: "db" or "s3"
    env,        \* the settings read with os.getenv at import time
    now,        \* wall clock (datetime.utcnow)
    nfaults,    \* environment failures injected so far
    table,      \* committed rows of videos
    nopen,      \* connections open on the server
    procs,      \* per caller: the locals of its current call, see Fresh
    blobs,      \* the bucket: a set of [key, body] objects, one per key
    up,         \* the locals of the current upload_to_s3 call, see FreshUpload
    inserted    \* history: the insert_video calls that returned True

vars == <<component, env, now, nfaults, table, nopen, procs, blobs, up, inserted>>

NoCall == [op |-> "none", video_id |-> None, user_id |-> None, filename |-> None,
           s3_key |-> None, status |-> None, limit |-> 0]
NoRes == [kind |-> "none", exc |-> "", val |-> <<>>]

\* the locals of a call before its first statement
Fresh ==
    [pc |-> "idle",        \* position in the call
     call |-> NoCall,      \* operation and arguments
     conn |-> "None",      \* local variable conn: "None", "open", "closed"
     cursor |-> FALSE,     \* whether local variable cursor is bound
     current_time |-> 0,   \* local variable current_time (insert_video)
     tx |-> {},            \* rows written by the connection's open transaction
     exc |-> "",           \* exception in flight ("" when none)
     ret |-> <<>>,         \* value the try body returned, as a sequence
     res |-> NoRes,        \* how the call ended
     connects |-> 0,       \* history: psycopg2.connect calls made
     orig |-> "",          \* history: first error raised in the call
     faulted |-> FALSE,    \* history: an environment failure hit this call
     passed |-> None,      \* history: the status argument as the caller passed it
     began |-> 0,          \* history: the clock when the call started
     pre |-> {}]           \* history: the table when the call started

\* the locals of an upload before its first statement
FreshUpload ==
    [pc |-> "idle",        \* position in the call
     filename |-> <<>>,    \* argument
     folder |-> <<>>,      \* argument (NoFolder when omitted)
     file |-> [data |-> <<>>, pos |-> 0],   \* the stream: its bytes and position
     object_key |-> <<>>,  \* local variable object_key
     exc |-> "",           \* exception in flight ("" when none)
     res |-> NoRes,        \* how the call ended
     entry |-> 0,          \* history: the stream's position when the call started
     seeks |-> 0,          \* history: file.seek calls made
     reset |-> FALSE,      \* history: file.seek(0) returned
     puts |-> 0,           \* history: upload_fileobj calls made
     wrote |-> <<>>,       \* history: keys written, in order
     posAtPut |-> <<>>,    \* history: stream position at each upload_fileobj call
     orig |-> "",          \* history: first error raised in the call
     faulted |-> FALSE,    \* history: an environment failure hit this call
     pre |-> {}]           \* history: the bucket when the call started

\* a behaviour exercises one of the two modules, which share no state; only the
\* settings of that module vary
Init ==
    /\ component \in {"db", "s3"}
    /\ env \in {e \in Environments :
                  \A k \in (IF component = "db" THEN S3Settings ELSE DbSettings) :
                      e[k] = "x"}
    /\ blobs = {}
    /\ up = FreshUpload
    /\ inserted = {}
    /\ now = 0
    /\ nfaults = 0
    /\ table = {}
    /\ nopen = 0
    /\ procs = [p \in Procs |-> Fresh]

Tick ==
    /\ component = "db"
    /\ now < MaxClock
    /\ now' = now + 1
    /\ UNCHANGED <<component, env, nfaults, table, nopen, procs, blobs, up, inserted>>

\* ------------------------------------------------------------ db_service.py
\* as DbConfigMissing, with DB_PASS left out of the list
DbConfigMissingNoPass(e) == \E k \in DbSettings \ {"DB_PASS"} : ~Truthy(e[k])

\* not all([DB_HOST, DB_USER, DB_PASS, DB_NAME])
DbConfigMissing(e) == \E k \in DbSettings : ~Truthy(e[k])

\* the status parameter after Python applied its default
StatusParam(s) == IF s = None THEN DefaultStatus ELSE s

\* the limit parameter after Python applied its default
LimitParam(k) == k

\* as NewRow, with filename and s3_key in each other's place in the tuple
NewRowSwapped(c, current_time) ==
    [video_id |-> c.video_id, user_id |-> c.user_id, filename |-> c.s3_key,
     s3_key |-> c.filename, status |-> c.status,
     created_at |-> current_time, updated_at |-> current_time]

\* as NewRow, with updated_at left at the epoch instead of current_time
NewRowUpdatedAtEpoch(c, current_time) ==
    [video_id |-> c.video_id, user_id |-> c.user_id, filename |-> c.filename,
     s3_key |-> c.s3_key, status |-> c.status,
     created_at |-> current_time, updated_at |-> 0]

\* the tuple bound to the INSERT statement, as the row it writes
NewRow(c, current_time) ==
    [video_id |-> c.video_id, user_id |-> c.user_id, filename |-> c.filename,
     s3_key |-> c.s3_key, status |-> c.status,
     created_at |-> current_time, updated_at |-> current_time]

\* raise e inside the try body: control goes to the except clauses
Raise(l, e) ==
    [l EXCEPT !.exc = e, !.orig = IF l.orig = "" THEN e ELSE l.orig, !.pc = "except"]

\* an environment failure hits the call
Hit(l) == [l EXCEPT !.faulted = TRUE]

Set(p, l) == procs' = [procs EXCEPT ![p] = l]

Begin(p, c, passed) ==
    /\ component = "db"
    /\ procs[p].pc = "idle"
    /\ Set(p, [Fresh EXCEPT !.pc = "connect", !.call = c, !.passed = passed,
                            !.began = now, !.pre = table])
    /\ UNCHANGED <<component, env, now, nfaults, table, nopen, blobs, up, inserted>>

InsertCall(p, v, u, f, k, s) ==
    Begin(p, [NoCall EXCEPT !.op = "insert", !.video_id = v, !.user_id = u,
                            !.filename = f, !.s3_key = k, !.status = StatusParam(s)],
          s)

GetCall(p, v) == Begin(p, [NoCall EXCEPT !.op = "get", !.video_id = v], None)

ListCall(p, u, s, k) ==
    Begin(p, [NoCall EXCEPT !.op = "list", !.user_id = u, !.status = s,
                            !.limit = LimitParam(k)], None)

\* conn = get_db_connection()
Connect(p) ==
    LET l == procs[p] IN
    /\ l.pc = "connect"
    /\ \/ /\ DbConfigMissing(env)
          /\ Set(p, Raise(l, "ValueError"))
          /\ UNCHANGED <<nopen, nfaults>>
       \/ /\ ~DbConfigMissing(env)
          /\ Set(p, [l EXCEPT !.conn = "open", !.connects = @ + 1, !.pc = "cursor"])
          /\ nopen' = nopen + 1
          /\ UNCHANGED nfaults
       \/ /\ ~DbConfigMissing(env)
          /\ nfaults < MaxFaults
          /\ nfaults' = nfaults + 1
          /\ Set(p, Raise(Hit([l EXCEPT !.connects = @ + 1]), "OperationalError"))
          /\ UNCHANGED nopen
    /\ UNCHANGED <<component, env, now, table, blobs, up, inserted>>

\* cursor = conn.cursor(...)
Cursor(p) ==
    LET l == procs[p] IN
    /\ l.pc = "cursor"
    /\ \/ /\ Set(p, [l EXCEPT !.cursor = TRUE, !.pc = "execute"])
          /\ UNCHANGED nfaults
       \/ /\ nfaults < MaxFaults
          /\ nfaults' = nfaults + 1
          /\ Set(p, Raise(Hit(l), "DatabaseError"))
    /\ UNCHANGED <<component, env, now, table, nopen, blobs, up, inserted>>

\* the primary key of videos: a row with this video_id is committed
PkTaken(v) == \E r \in table : r.video_id = v
\* another open transaction wrote a row with this video_id (the INSERT waits for it)
PkLocked(p, v) == \E q \in Procs \ {p} : \E r \in procs[q].tx : r.video_id = v

\* as InsertStatement, for INSERT ... ON CONFLICT (video_id) DO UPDATE
InsertStatementUpsert(row) == "ok"

\* what the server answers to INSERT INTO videos (...) VALUES (...) of this row
InsertStatement(row) == IF PkTaken(row.video_id) THEN "IntegrityError" ELSE "ok"

\* current_time = datetime.utcnow()
UtcNow(p) ==
    LET l == procs[p] IN
    /\ l.pc = "execute"
    /\ l.call.op = "insert"
    /\ Set(p, [l EXCEPT !.current_time = now, !.pc = "insert"])
    /\ UNCHANGED <<component, env, now, nfaults, table, nopen, blobs, up, inserted>>

\* cursor.execute(insert_query, (..., current_time, current_time)); the statement
\* waits while another open transaction holds a row with the same video_id
InsertExecute(p) ==
    LET l == procs[p] IN
    /\ l.pc = "insert"
    /\ l.call.op = "insert"
    /\ \/ /\ ~PkLocked(p, l.call.video_id)
          /\ IF InsertStatement(NewRow(l.call, l.current_time)) = "ok"
                THEN Set(p, [l EXCEPT !.tx = {NewRow(l.call, l.current_time)},
                                      !.pc = "commit"])
                ELSE Set(p, Raise(l, InsertStatement(NewRow(l.call, l.current_time))))
          /\ UNCHANGED nfaults
       \/ /\ nfaults < MaxFaults
          /\ nfaults' = nfaults + 1
          /\ \E e \in {"DatabaseError", "Exception"} :
                Set(p, Raise(Hit(l), e))
    /\ UNCHANGED <<component, env, now, table, nopen, blobs, up, inserted>>

\* as Commit, without the conn.commit() call: return True alone
CommitForgotten(p) ==
    LET l == procs[p] IN
    /\ l.pc = "commit"
    /\ Set(p, [l EXCEPT !.ret = <<TRUE>>, !.pc = "finally"])
    /\ UNCHANGED <<component, env, now, nfaults, table, nopen, blobs, up, inserted>>

\* conn.commit(); return True
Commit(p) ==
    LET l == procs[p] IN
    /\ l.pc = "commit"
    /\ \/ /\ table' = table \cup l.tx
          /\ Set(p, [l EXCEPT !.tx = {}, !.ret = <<TRUE>>, !.pc = "finally"])
          /\ UNCHANGED nfaults
       \/ /\ nfaults < MaxFaults
          /\ nfaults' = nfaults + 1
          /\ Set(p, Raise(Hit(l), "OperationalError"))
          /\ UNCHANGED table
    /\ UNCHANGED <<component, env, now, nopen, blobs, up, inserted>>

\* as SelectById, with WHERE user_id = %s
SelectByUser(v) == {r \in table : r.user_id = v}

\* SELECT ... WHERE video_id = %s, as the server answers it (committed rows only)
SelectById(v) == {r \in table : r.video_id = v}

\* result = cursor.fetchone(): the row, or nothing; as a sequence of at most one row
FetchOne(rows) == IF rows = {} THEN <<>> ELSE <<CHOOSE r \in rows : TRUE>>

\* if result: return dict(result) / return None  (<<>> stands for None)
GetResult(result) ==
    IF result # <<>> /\ DOMAIN result[1] # {} THEN <<result[1]>> ELSE <<>>

\* cursor.execute(select_query, (video_id,)); result = cursor.fetchone(); return ...
GetExecute(p) ==
    LET l == procs[p] IN
    /\ l.pc = "execute"
    /\ l.call.op = "get"
    /\ \/ /\ Set(p, [l EXCEPT !.ret = GetResult(FetchOne(SelectById(l.call.video_id))), !.pc = "finally"])
          /\ UNCHANGED nfaults
       \/ /\ nfaults < MaxFaults
          /\ nfaults' = nfaults + 1
          /\ Set(p, Raise(Hit(l), "DatabaseError"))
    /\ UNCHANGED <<component, env, now, table, nopen, blobs, up, inserted>>

\* the WHERE conditions list_videos appends to base_query, as <<column, value>> pairs
ListWhere(user_id, status) ==
    (IF Truthy(user_id) THEN <<(<<"user_id", user_id>>)>> ELSE <<>>) \o
    (IF Truthy(status) THEN <<(<<"status", status>>)>> ELSE <<>>)

\* the rows a WHERE 1=1 AND col = val ... clause selects
Where(rows, conds) ==
    {r \in rows : \A i \in 1..Len(conds) : r[conds[i][1]] = conds[i][2]}

\* the orders ORDER BY created_at DESC may return a set of rows in (ties in any order)
OrderByCreatedDesc(rows) ==
    {q \in [1..Cardinality(rows) -> rows] :
        /\ \A i, j \in DOMAIN q : i # j => q[i] # q[j]
        /\ \A i, j \in DOMAIN q : i < j => q[i].created_at >= q[j].created_at}

\* LIMIT n
Limit(q, n) == SubSeq(q, 1, IF n < Len(q) THEN n ELSE Len(q))

\* the results cursor.fetchall() may return for list_videos' query
ListSelect(user_id, status, limit) ==
    {Limit(q, limit) : q \in OrderByCreatedDesc(Where(table, ListWhere(user_id, status)))}

\* return [dict(row) for row in results]
ListResult(results) == results

\* cursor.execute(base_query, params); results = cursor.fetchall(); return [...]
ListExecute(p) ==
    LET l == procs[p] IN
    /\ l.pc = "execute"
    /\ l.call.op = "list"
    /\ \/ /\ \E results \in ListSelect(l.call.user_id, l.call.status, l.call.limit) :
                Set(p, [l EXCEPT !.ret = ListResult(results), !.pc = "finally"])
          /\ UNCHANGED nfaults
       \/ /\ nfaults < MaxFaults
          /\ nfaults' = nfaults + 1
          /\ Set(p, Raise(Hit(l), "DatabaseError"))
    /\ UNCHANGED <<component, env, now, table, nopen, blobs, up, inserted>>

\* whether the except clause that catches l.exc calls conn.rollback():
\* insert_video's IntegrityError clause always, its other clauses if conn;
\* get_video and list_videos never
Rollbacks(l) ==
    /\ l.call.op = "insert"
    /\ IF IsIntegrityError(l.exc) THEN TRUE
       ELSE IF IsPsycopgError(l.exc) THEN l.conn # "None"
       ELSE l.conn # "None"

\* the except clause ends with a bare raise: the exception stays in flight
Reraise(l) == [l EXCEPT !.pc = "finally"]

\* except ...: [conn.rollback()]; logger.error(...); raise
Except(p) ==
    LET l == procs[p] IN
    /\ l.pc = "except"
    /\ IF Rollbacks(l)
          THEN IF l.conn = "None"
                  THEN /\ Set(p, Reraise([l EXCEPT !.exc = "AttributeError"]))
                       /\ UNCHANGED nfaults
                  ELSE \/ /\ Set(p, Reraise([l EXCEPT !.tx = {}]))
                          /\ UNCHANGED nfaults
                       \/ /\ nfaults < MaxFaults
                          /\ nfaults' = nfaults + 1
                          /\ Set(p, Reraise(Hit([l EXCEPT !.tx = {},
                                                          !.exc = "OperationalError"])))
          ELSE /\ Set(p, Reraise(l))
               /\ UNCHANGED nfaults
    /\ UNCHANGED <<component, env, now, table, nopen, blobs, up, inserted>>

\* the call ends: the exception in flight propagates, or the value is returned
Leave(l) ==
    [l EXCEPT !.pc = "done",
              !.res = IF l.exc # "" THEN [kind |-> "raise", exc |-> l.exc, val |-> <<>>]
                                    ELSE [kind |-> "return", exc |-> "", val |-> l.ret]]

\* an exception raised inside the finally block replaces what was in flight
RaiseInFinally(l, e) ==
    [l EXCEPT !.exc = e, !.orig = IF l.orig = "" THEN e ELSE l.orig]

\* history: an insert_video call that returns True is recorded with its arguments
Record(l) ==
    IF l.call.op = "insert" /\ l.res.kind = "return"
       THEN {[call |-> l.call, passed |-> l.passed]}
       ELSE {}

\* the call of caller p ends with locals l
End(p, l) ==
    /\ Set(p, Leave(l))
    /\ inserted' = inserted \cup Record(Leave(l))

\* finally: if conn: cursor.close(); conn.close()
Finally(p) ==
    LET l == procs[p] IN
    /\ l.pc = "finally"
    /\ IF l.conn = "None"
          THEN /\ End(p, l)
               /\ UNCHANGED <<nopen, nfaults>>
          ELSE IF ~l.cursor
                  THEN /\ End(p, RaiseInFinally(l, "UnboundLocalError"))
                       /\ UNCHANGED <<nopen, nfaults>>
                  ELSE \/ /\ End(p, [l EXCEPT !.conn = "closed", !.tx = {}])
                          /\ nopen' = nopen - 1
                          /\ UNCHANGED nfaults
                       \/ /\ nfaults < MaxFaults
                          /\ nfaults' = nfaults + 1
                          /\ End(p, RaiseInFinally(Hit(l), "DatabaseError"))
                          /\ UNCHANGED nopen
    /\ UNCHANGED <<component, env, now, table, blobs, up>>

\* the caller has the result of the call; the locals of the call are gone
Return(p) ==
    /\ procs[p].pc = "done"
    /\ Set(p, Fresh)
    /\ UNCHANGED <<component, env, now, nfaults, table, nopen, blobs, up, inserted>>

\* ------------------------------------------------------------ s3_service.py
\* get_s3_client's checks: not KEY or not SECRET; not S3_BUCKET_NAME
S3ConfigMissing(e) ==
    \/ ~Truthy(e["AWS_ACCESS_KEY_ID"]) \/ ~Truthy(e["AWS_SECRET_ACCESS_KEY"])
    \/ ~Truthy(e["S3_BUCKET_NAME"])

RECURSIVE LStrip(_)
\* s without its leading "/" characters
LStrip(s) == IF s # <<>> /\ Head(s) = "/" THEN LStrip(Tail(s)) ELSE s

RECURSIVE RStrip(_)
\* s without its trailing "/" characters
RStrip(s) ==
    IF s # <<>> /\ s[Len(s)] = "/" THEN RStrip(SubSeq(s, 1, Len(s) - 1)) ELSE s

\* as Strip, with folder.lstrip("/")
StripLeadingOnly(s) == LStrip(s)

\* folder.strip("/")
Strip(s) == RStrip(LStrip(s))

\* if folder: folder = folder.strip("/"); object_key = f"{folder}/{filename}"
\* else: object_key = filename
ObjectKey(folder, filename) ==
    IF TruthyStr(folder) THEN Strip(folder) \o <<"/">> \o filename ELSE filename

Keys(bucket) == {b.key : b \in bucket}

\* raise e inside upload_to_s3's try body
RaiseUp(l, e) ==
    [l EXCEPT !.exc = e, !.orig = IF l.orig = "" THEN e ELSE l.orig, !.pc = "except"]

UploadCall(filename, folder, pos) ==
    /\ component = "s3"
    /\ up.pc = "idle"
    /\ Cardinality(blobs) < MaxBlobs \/ ObjectKey(folder, filename) \in Keys(blobs)
    /\ up' = [FreshUpload EXCEPT !.pc = "client", !.filename = filename,
                                 !.folder = folder,
                                 !.file = [data |-> FileData, pos |-> pos],
                                 !.entry = pos,
                                 !.pre = blobs]
    /\ UNCHANGED <<component, env, now, nfaults, table, nopen, procs, blobs, inserted>>

\* s3_client = get_s3_client()
S3Client ==
    /\ up.pc = "client"
    /\ IF S3ConfigMissing(env)
          THEN up' = RaiseUp(up, "ValueError")
          ELSE up' = [up EXCEPT !.pc = "seek"]
    /\ UNCHANGED <<component, env, now, nfaults, table, nopen, procs, blobs, inserted>>

\* as Seek, with file.seek(0) left out: the stream keeps its position
SeekSkipped ==
    /\ up.pc = "seek"
    /\ up' = [up EXCEPT !.object_key = ObjectKey(up.folder, up.filename),
                        !.seeks = @ + 1, !.reset = TRUE, !.pc = "put"]
    /\ UNCHANGED <<component, env, now, nfaults, table, nopen, procs, blobs, inserted>>

\* object_key = ...; file.seek(0)
Seek ==
    /\ up.pc = "seek"
    /\ \/ /\ up' = [up EXCEPT !.object_key = ObjectKey(up.folder, up.filename),
                              !.file.pos = 0, !.seeks = @ + 1, !.reset = TRUE,
                              !.pc = "put"]
          /\ UNCHANGED nfaults
       \/ /\ nfaults < MaxFaults
          /\ nfaults' = nfaults + 1
          /\ \E e \in {"ValueError", "Exception"} :
                up' = RaiseUp([up EXCEPT !.object_key = ObjectKey(up.folder, up.filename),
                                         !.seeks = @ + 1, !.faulted = TRUE], e)
    /\ UNCHANGED <<component, env, now, table, nopen, procs, blobs, inserted>>

\* the object upload_fileobj stores: the bytes from the stream's position to its end
Body(file) == SubSeq(file.data, file.pos + 1, Len(file.data))

\* s3_client.upload_fileobj(file, S3_BUCKET_NAME, object_key); return object_key
Put ==
    /\ up.pc = "put"
    /\ \/ /\ blobs' = {b \in blobs : b.key # up.object_key}
                      \cup {[key |-> up.object_key, body |-> Body(up.file)]}
          /\ up' = [up EXCEPT !.file.pos = Len(up.file.data), !.puts = @ + 1,
                              !.wrote = Append(@, up.object_key),
                              !.posAtPut = Append(@, up.file.pos),
                              !.pc = "done",
                              !.res = [kind |-> "return", exc |-> "",
                                       val |-> <<up.object_key>>]]
          /\ UNCHANGED nfaults
       \/ /\ nfaults < MaxFaults
          /\ nfaults' = nfaults + 1
          /\ \E e \in {"ClientError", "BotoCoreError", "Exception"} :
                up' = RaiseUp([up EXCEPT !.puts = @ + 1,
                                         !.posAtPut = Append(@, up.file.pos),
                                         !.faulted = TRUE], e)
          /\ UNCHANGED blobs
    /\ UNCHANGED <<component, env, now, table, nopen, procs, inserted>>

\* except ValueError / ClientError / BotoCoreError / Exception: logger.error(...); raise
UploadExcept ==
    /\ up.pc = "except"
    /\ up' = [up EXCEPT !.pc = "done",
                        !.res = [kind |-> "raise", exc |-> up.exc, val |-> <<>>]]
    /\ UNCHANGED <<component, env, now, nfaults, table, nopen, procs, blobs, inserted>>

\* the caller has the result of the upload; the locals of the call are gone
UploadReturn ==
    /\ up.pc = "done"
    /\ up' = FreshUpload
    /\ UNCHANGED <<component, env, now, nfaults, table, nopen, procs, blobs, inserted>>

\* one caller at a time
Next ==
    \/ Tick
    \/ \E v \in VideoIds, o \in OwnerArgs, f \in Filenames, k \in S3Keys :
          InsertCall(Caller, v, o[1], f, k, o[2])
    \/ \E v \in VideoIds : GetCall(Caller, v)
    \/ \E u \in UserFilters, s \in StatusFilters, k \in LimitArgs :
          ListCall(Caller, u, s, k)
    \/ Connect(Caller)
    \/ Cursor(Caller)
    \/ UtcNow(Caller)
    \/ InsertExecute(Caller)
    \/ Commit(Caller)
    \/ GetExecute(Caller)
    \/ ListExecute(Caller)
    \/ Except(Caller)
    \/ Finally(Caller)
    \/ Return(Caller)
    \/ \E filename \in FilenameArgs, folder \in FolderArgs, pos \in 0..Len(FileData) :
          UploadCall(filename, folder, pos)
    \/ S3Client
    \/ Seek
    \/ Put
    \/ UploadExcept
    \/ UploadReturn

Spec == Init /\ [][Next]_vars

\* several callers at once, on one video_id, with every setting present
InitConc ==
    /\ Init
    /\ component = "db"
    /\ env = AllSet

NextConc ==
    \/ Tick
    \/ \E p \in Procs, u \in UserIds :
          InsertCall(p, "v1", u, "a.mp4", "uploads/a.mp4", None)
    \/ \E p \in Procs : GetCall(p, "v1")
    \/ \E p \in Procs : ListCall(p, None, None, DefaultLimit)
    \/ \E p \in Procs : Connect(p)
    \/ \E p \in Procs : Cursor(p)
    \/ \E p \in Procs : UtcNow(p)
    \/ \E p \in Procs : InsertExecute(p)
    \/ \E p \in Procs : Commit(p)
    \/ \E p \in Procs : GetExecute(p)
    \/ \E p \in Procs : ListExecute(p)
    \/ \E p \in Procs : Except(p)
    \/ \E p \in Procs : Finally(p)
    \/ \E p \in Procs : Return(p)

SpecConc == InitConc /\ [][NextConc]_vars
\* ------------------------------------------------------------------ claims
RowFields == {"video_id", "user_id", "filename", "s3_key", "status", "created_at",
              "updated_at"}
RaiseOf(e) == [kind |-> "raise", exc |-> e, val |-> <<>>]
DbSettingsPresent == \A k \in DbSettings : env[k] = "x"

\* C1: an insert_video call whose video_id was stored when the call began never
\* returns a value, writes nothing (no pending row, the table is what it was when
\* the call began), and ends with IntegrityError when no environment failure hit it.
C1_DuplicateInsertFails ==
    \A p \in Procs :
        LET l == procs[p] IN
        (l.call.op = "insert" /\ \E r \in l.pre : r.video_id = l.call.video_id) =>
            /\ l.res.kind # "return"
            /\ l.tx = {}
            /\ table = l.pre
            /\ (l.pc = "done" /\ ~l.faulted) => l.res = RaiseOf("IntegrityError")

\* a duplicate insert with another user_id ended with IntegrityError
C1_Witness ==
    \E p \in Procs :
        LET l == procs[p] IN
        /\ l.call.op = "insert" /\ l.pc = "done" /\ ~l.faulted
        /\ \E r \in l.pre : r.video_id = l.call.video_id /\ r.user_id # l.call.user_id
        /\ l.res = RaiseOf("IntegrityError")

\* C2: get_video of a video_id that an insert_video call returned True for returns
\* a record with that call's video_id, user_id, filename and s3_key, the status it
\* passed ("pending" when it passed none) and created_at = updated_at; and when
\* insert_video returns True the stored row's timestamps are equal and lie between
\* the clock at the start of the call and the clock now.
C2_InsertGetRoundTrip ==
    \A p \in Procs :
        LET l == procs[p] IN
        /\ (l.call.op = "get" /\ l.pc = "done" /\ l.res.kind = "return") =>
              \A w \in inserted :
                  w.call.video_id = l.call.video_id =>
                      /\ l.res.val # <<>>
                      /\ l.res.val[1].video_id = w.call.video_id
                      /\ l.res.val[1].user_id = w.call.user_id
                      /\ l.res.val[1].filename = w.call.filename
                      /\ l.res.val[1].s3_key = w.call.s3_key
                      /\ l.res.val[1].status =
                            (IF w.passed = None THEN "pending" ELSE w.passed)
                      /\ l.res.val[1].created_at = l.res.val[1].updated_at
        /\ (l.call.op = "insert" /\ l.pc = "done" /\ l.res.kind = "return") =>
              \E r \in table :
                  /\ r.video_id = l.call.video_id
                  /\ r.created_at = r.updated_at
                  /\ l.began <= r.created_at /\ r.created_at <= now

\* get_video returned the record of an insert that passed no status, made after
\* the clock had advanced
C2_Witness ==
    \E p \in Procs :
        LET l == procs[p] IN
        /\ l.call.op = "get" /\ l.pc = "done" /\ l.res.kind = "return"
        /\ l.res.val # <<>>
        /\ l.res.val[1].status = "pending"
        /\ l.res.val[1].created_at > 0
        /\ \E w \in inserted : w.call.video_id = l.call.video_id /\ w.passed = None

\* C3: a get_video call that no environment failure hit, with the database settings
\* present, returns: None when no stored row has the video_id, else the stored row
\* with all seven fields.
C3_GetAbsentOrComplete ==
    \A p \in Procs :
        LET l == procs[p] IN
        (l.call.op = "get" /\ l.pc = "done" /\ ~l.faulted /\ DbSettingsPresent) =>
            /\ l.res.kind = "return"
            /\ IF \E r \in table : r.video_id = l.call.video_id
                  THEN /\ Len(l.res.val) = 1
                       /\ l.res.val[1] \in table
                       /\ l.res.val[1].video_id = l.call.video_id
                       /\ DOMAIN l.res.val[1] = RowFields
                  ELSE l.res.val = <<>>

\* get_video returned None for a video_id not stored while another one is stored
C3_Witness ==
    \E p \in Procs :
        LET l == procs[p] IN
        /\ l.call.op = "get" /\ l.pc = "done" /\ l.res.kind = "return"
        /\ l.res.val = <<>>
        /\ table # {}
        /\ ~\E r \in table : r.video_id = l.call.video_id
Range(q) == {q[i] : i \in DOMAIN q}
Min(a, b) == IF a < b THEN a ELSE b
\* the stored rows a list_videos call's filters match, a supplied filter (any
\* string, the empty one too) constraining and an omitted one not
Matching(c) ==
    {r \in table : /\ c.user_id # None => r.user_id = c.user_id
                   /\ c.status # None => r.status = c.status}

\* C4: a list_videos call that returns, with no more matches than limit, returns
\* exactly the stored rows that satisfy every supplied filter.
C4_ListFiltersConstrain ==
    \A p \in Procs :
        LET l == procs[p] IN
        (/\ l.call.op = "list" /\ l.pc = "done" /\ l.res.kind = "return"
         /\ Cardinality(Matching(l.call)) <= l.call.limit) =>
            Range(l.res.val) = Matching(l.call)

\* what holds of the code: the same with a filter counted as supplied only when
\* it is a non-empty string
ListFiltersConstrainWhenNonEmpty ==
    \A p \in Procs :
        LET l == procs[p]
            M == {r \in table : /\ Truthy(l.call.user_id) => r.user_id = l.call.user_id
                                /\ Truthy(l.call.status) => r.status = l.call.status}
        IN (/\ l.call.op = "list" /\ l.pc = "done" /\ l.res.kind = "return"
            /\ Cardinality(M) <= l.call.limit) =>
               Range(l.res.val) = M

\* the order and cap of a returned list against a set of matching rows
OrderedAndCapped(val, limit, M) ==
    /\ Len(val) = Min(limit, Cardinality(M))
    /\ Range(val) \subseteq M
    /\ \A i, j \in DOMAIN val : i # j => val[i] # val[j]
    /\ \A i, j \in DOMAIN val : i < j => val[i].created_at >= val[j].created_at
    /\ \A r \in M \ Range(val) : \A i \in DOMAIN val : val[i].created_at >= r.created_at

\* C5: a list_videos call that no environment failure hit, with the database
\* settings present, returns min(limit, number of matching rows) rows, in
\* non-increasing created_at order, none older than a matching row left out.
C5_ListOrderedAndCapped ==
    \A p \in Procs :
        LET l == procs[p] IN
        (l.call.op = "list" /\ l.pc = "done" /\ ~l.faulted /\ DbSettingsPresent) =>
            /\ l.res.kind = "return"
            /\ OrderedAndCapped(l.res.val, l.call.limit, Matching(l.call))

\* what holds of the code: the same for the calls whose filters are omitted or
\* non-empty
ListOrderedAndCappedWhenNonEmpty ==
    \A p \in Procs :
        LET l == procs[p] IN
        (/\ l.call.op = "list" /\ l.pc = "done" /\ ~l.faulted /\ DbSettingsPresent
         /\ l.call.user_id # "" /\ l.call.status # "") =>
            /\ l.res.kind = "return"
            /\ OrderedAndCapped(l.res.val, l.call.limit, Matching(l.call))
\* s without its leading and trailing "/" characters, by the positions of the others
Trimmed(s) ==
    LET keep == {i \in DOMAIN s : s[i] # "/"} IN
    IF keep = {} THEN <<>>
    ELSE SubSeq(s, CHOOSE i \in keep : \A j \in keep : i <= j,
                   CHOOSE i \in keep : \A j \in keep : j <= i)
UploadsAMp4 == <<"u", "p", "l", "o", "a", "d", "s", "/", "a", ".", "m", "p", "4">>

\* the key of a returned upload, a folder counting as given when given(folder)
UploadKeyIs(given) ==
    (up.pc = "done" /\ up.res.kind = "return") =>
        /\ up.res.val = <<IF given THEN Trimmed(up.folder) \o <<"/">> \o up.filename
                                   ELSE up.filename>>
        /\ (up.folder = SlashUploadsSlash /\ up.filename = AMp4) =>
              up.res.val = <<UploadsAMp4>>
        /\ up.wrote = up.res.val
        /\ up.res.val[1] \in Keys(blobs)

\* C6 as stated: a returned upload_to_s3 call returns, and wrote the object under,
\* the folder without its leading and trailing "/", then "/", then the name when a
\* folder was passed (any string), and the name alone when none was passed.
C6_UploadKeyAsStated == UploadKeyIs(up.folder # NoFolder)

\* C6: a returned upload_to_s3 call returns, and wrote the object under, the folder
\* without its leading and trailing "/", then "/", then the name when a non-empty
\* folder was passed, and the name alone when no folder or the empty string was
\* passed; "/uploads/" and "a.mp4" give "uploads/a.mp4".
C6_UploadKey == UploadKeyIs(up.folder # NoFolder /\ up.folder # <<>>)

\* the upload of "a.mp4" to folder "/uploads/" returned
C6_Witness ==
    /\ up.pc = "done" /\ up.res.kind = "return"
    /\ up.folder = SlashUploadsSlash /\ up.filename = AMp4
    /\ up.res.val = <<UploadsAMp4>>

\* C7: with a required database setting unset no connection is ever attempted or
\* open, the table stays as it was, and every call ends with ValueError; with a
\* required storage setting unset the stream is never sought, nothing is written,
\* the bucket stays as it was, and every upload ends with ValueError.
C7_ConfigurationFailsFirst ==
    /\ (\E k \in DbSettings : env[k] = None) =>
          /\ nopen = 0
          /\ \A p \in Procs :
                LET l == procs[p] IN
                /\ l.connects = 0 /\ l.conn = "None" /\ l.tx = {}
                /\ table = l.pre
                /\ l.pc = "done" => l.res = RaiseOf("ValueError")
    /\ (\E k \in S3Settings : env[k] = None) =>
          /\ up.seeks = 0 /\ up.puts = 0 /\ up.wrote = <<>>
          /\ blobs = up.pre
          /\ up.pc = "done" => up.res = RaiseOf("ValueError")

\* an insert_video call ended with ValueError while DB_PASS is unset
C7_Witness ==
    /\ env["DB_PASS"] = None
    /\ \E p \in Procs :
          /\ procs[p].call.op = "insert" /\ procs[p].pc = "done"
          /\ procs[p].res = RaiseOf("ValueError")

\* C8: a call that has ended holds no open connection, and with no call running
\* no connection is open.
C8_ConnectionsReleased ==
    /\ \A p \in Procs : procs[p].pc = "done" => procs[p].conn # "open"
    /\ (\A p \in Procs : procs[p].pc \in {"idle", "done"}) => nopen = 0

\* C9: a call in which an error was raised ends by raising the first error raised
\* in it, and a call in which none was raised returns.
C9_ErrorsReachCallerUnchanged ==
    /\ \A p \in Procs :
          LET l == procs[p] IN
          l.pc = "done" =>
              IF l.orig # "" THEN l.res = RaiseOf(l.orig) ELSE l.res.kind = "return"
    /\ up.pc = "done" =>
          IF up.orig # "" THEN up.res = RaiseOf(up.orig) ELSE up.res.kind = "return"

\* C10: with callers running concurrently, no two insert_video calls on one
\* video_id return True and no two stored rows share a video_id; the row stored
\* for a call that returned True is the row of that call's arguments; an insert
\* that no environment failure hit returns True or ends with IntegrityError, the
\* latter only when a row of another call is committed (whose call returned or is
\* returning True, unless an environment failure occurred); and every record a
\* get_video or list_videos call returns is a committed row with all seven fields.
C10_ConcurrentInsertsAndReads ==
    /\ \A r1, r2 \in table : r1.video_id = r2.video_id => r1 = r2
    /\ \A p, q \in Procs :
          (/\ p # q
           /\ procs[p].call.op = "insert" /\ procs[q].call.op = "insert"
           /\ procs[p].call.video_id = procs[q].call.video_id) =>
              ~(procs[p].res.kind = "return" /\ procs[q].res.kind = "return")
    /\ \A p \in Procs :
          LET l == procs[p] IN
          /\ (l.call.op = "insert" /\ l.res.kind = "return") =>
                /\ l.res.val = <<TRUE>>
                /\ \E r \in table :
                      /\ [k \in RowFields \ {"created_at", "updated_at"} |-> r[k]] =
                            [k \in RowFields \ {"created_at", "updated_at"} |-> l.call[k]]
                      /\ r.created_at = r.updated_at
          /\ (l.call.op = "insert" /\ l.pc = "done" /\ ~l.faulted) =>
                \/ l.res.kind = "return"
                \/ /\ l.res = RaiseOf("IntegrityError")
                   /\ \E r \in table : r.video_id = l.call.video_id
                   /\ \/ \E w \in inserted : w.call.video_id = l.call.video_id
                      \/ \E q \in Procs \ {p} :
                            /\ procs[q].call.op = "insert"
                            /\ procs[q].call.video_id = l.call.video_id
                            /\ procs[q].ret = <<TRUE>>
                      \/ nfaults > 0
          /\ (l.call.op \in {"get", "list"} /\ l.pc = "done" /\ l.res.kind = "return") =>
                \A i \in DOMAIN l.res.val :
                    l.res.val[i] \in table /\ DOMAIN l.res.val[i] = RowFields

\* two insert_video calls on one video_id with different user_ids ran at once
\* (the table was empty when the second began): one has returned True, the other
\* ended with IntegrityError
C10_Witness ==
    \E p, q \in Procs :
        /\ procs[p].call.op = "insert" /\ procs[q].call.op = "insert"
        /\ procs[p].call.video_id = procs[q].call.video_id
        /\ procs[p].call.user_id # procs[q].call.user_id
        /\ procs[p].res.kind = "return"
        /\ procs[q].pc = "done" /\ procs[q].res = RaiseOf("IntegrityError")
        /\ procs[q].pre = {}
\* C11: an upload that passed the configuration check resets the stream to
\* position zero before its write to the object store starts, whatever the
\* position was on entry (every upload_fileobj call found the stream at 0, and a
\* completed write stored all the bytes); it issues one upload_fileobj call, never
\* more, and none only when file.seek(0) itself raised; the key is returned only
\* after that one call completed without error, and a call that raised returns
\* no key and stores nothing
C11_ResetThenOneWrite ==
    /\ up.puts = Len(up.posAtPut) /\ up.puts <= 1
    /\ \A i \in DOMAIN up.posAtPut : up.posAtPut[i] = 0 /\ up.reset
    /\ up.pc = "put" => up.reset /\ up.file.pos = 0 /\ up.puts = 0
    /\ (up.pc = "done" /\ ~S3ConfigMissing(env)) =>
          /\ up.seeks = 1
          /\ up.reset => up.puts = 1 /\ up.posAtPut = <<0>>
          /\ ~up.reset => up.puts = 0 /\ up.faulted /\ up.res = RaiseOf(up.orig)
    /\ up.res.kind = "return" =>
          /\ up.puts = 1 /\ up.orig = "" /\ up.wrote = <<up.object_key>>
          /\ up.res.val = <<up.object_key>>
          /\ [key |-> up.object_key, body |-> FileData] \in blobs
    /\ up.res.kind = "raise" => up.wrote = <<>> /\ blobs = up.pre

\* an upload whose stream was at its end on entry returned its key after one
\* write that found the stream at position zero
C11_Witness ==
    /\ up.pc = "done" /\ up.res.kind = "return"
    /\ up.entry = Len(FileData) /\ up.entry > 0
    /\ up.puts = 1 /\ up.posAtPut = <<0>>
    /\ [key |-> up.object_key, body |-> FileData] \in blobs

\* the arguments of an insert_video call, as the fields of the row it writes
Written(c) == [k \in RowFields \ {"created_at", "updated_at"} |-> c[k]]

\* every stored record has the seven fields, updated_at >= created_at, a video_id
\* of its own, and the field values of the insert_video call that returned True
\* for its video_id
StoredRecordsAsWritten ==
    /\ \A r \in table :
          /\ DOMAIN r = RowFields
          /\ r.updated_at >= r.created_at
          /\ r.created_at <= now
          /\ \A w \in inserted :
                w.call.video_id = r.video_id =>
                    [k \in DOMAIN Written(w.call) |-> r[k]] = Written(w.call)
    /\ \A r1, r2 \in table : r1.video_id = r2.video_id => r1 = r2

\* a step keeps every stored record as it is; a record is added only by the
\* conn.commit() of an insert_video call, with that call's arguments and a
\* video_id no stored record has; a step of a get_video or list_videos call
\* leaves the table unchanged
StoredRecordsKept ==
    /\ table \subseteq table'
    /\ \A r \in table' \ table :
          /\ ~PkTaken(r.video_id)
          /\ \E p \in Procs :
                /\ procs[p].call.op = "insert" /\ procs[p].pc = "commit"
                /\ procs[p].tx = {r}
                /\ [k \in DOMAIN Written(procs[p].call) |-> r[k]] =
                      Written(procs[p].call)
                /\ procs[p].began <= r.created_at
                /\ procs'[p].ret = <<TRUE>>
    /\ \A p \in Procs :
          (procs'[p] # procs[p] /\ procs'[p].call.op \in {"get", "list"}) =>
              table' = table

\* C12: in every reachable state each stored record has updated_at >= created_at
\* and the field values its insert_video call wrote, and no step of an insert,
\* get or list call, successful or failing, changes or removes a stored record:
\* the table changes only by the commit of an insert call, which adds that
\* call's record under a new video_id, and get and list calls leave it unchanged
C12_StoredRecordsImmutable == []StoredRecordsAsWritten /\ [][StoredRecordsKept]_vars

\* a record stored at an earlier time is still as its insert wrote it after a
\* second record was stored and a duplicate insert with another user_id failed
C12_Witness ==
    \E r1, r2 \in table :
        /\ r1.video_id # r2.video_id /\ r1.created_at < r2.created_at
        /\ \E w \in inserted :
              /\ w.call.video_id = r1.video_id
              /\ [k \in DOMAIN Written(w.call) |-> r1[k]] = Written(w.call)
        /\ procs[Caller].pc = "done" /\ procs[Caller].call.op = "insert"
        /\ procs[Caller].call.video_id = r1.video_id
        /\ procs[Caller].call.user_id # r1.user_id
        /\ procs[Caller].res.kind = "raise"
        /\ table = procs[Caller].pre

====
